---------------------------- MODULE Spec2Model ----------------------------
(***************************************************************************)
(* A state-machine model of the swell-engine repository:                   *)
(*   - core.py            calculate_physics_score, fetch_single_station_data*)
(*   - scan.py            scan_the_world (the duplicated vector scoring)    *)
(*   - link_and_orient.py calculate_beach_angle, process_spots              *)
(*   - refresh_data.py    haversine, refresh                                *)
(*   - api.py / main.py   the live report (fusion + scoring)                *)
(*                                                                         *)
(* Real numbers are fixed point.  Angles are whole degrees; sin and cos    *)
(* come from a three-digit table (TrigScale = 1000), so a dot product of   *)
(* two unit vectors is in units of 1/DotUnit.  A quality score is in units *)
(* of 1/Q of a point and a final score in units of 1/F of a point, which   *)
(* keeps /2, /300, *0.6 and *0.4 exact.  Floating-point rounding of the    *)
(* last bit is not modelled.                                               *)
(***************************************************************************)
EXTENDS Integers, Sequences, FiniteSets, TLC

VARIABLES
    x,          \* scoring: the six inputs of one observation
    score,      \* scoring: the result of each scoring path, or None
    prev,       \* scoring: the previous input and scalar score, or None
    ring,       \* orientation: is_water of each sample point of the ring
    facings,    \* orientation: the results of the calls made so far
    stationTable, \* NOAA's station table: rows of station_id, lat, lon
    latestObs,  \* NOAA's latest_obs.txt: rows of id, lat, lon, wvht, wspd
    rawSpots,   \* surf_spots.json: rows of lat, lng
    buoysFile,  \* all_noaa_buoys.json: None (missing), or key and rows
    spotsFile,  \* master_surf_spots.json: whether it exists, and its chunks
    lastJob,    \* the batch job that ran last and whether it finished
    jobs,       \* publish: each running batch job's kind, pc, result, offset
    apiDf,      \* publish: the registry api.py loaded at startup, or None
    snapshots,  \* publish: the complete registries there have been
    feeds,      \* live: what NOAA serves for the swell and the wind station
    liveSpot,   \* live: the registry row of the queried location
    apiOut,     \* live: the outcome of api.py's get_live_report, or None
    cliOut,     \* live: the outcome of main.py's report, or None
    reply       \* service: the last query and its outcome, or None

scoreVars == <<x, score, prev>>
orientVars == <<ring, facings>>
worldVars == <<stationTable, latestObs, rawSpots>>
batchVars == <<worldVars, buoysFile, spotsFile, lastJob>>
publishVars == <<jobs, apiDf, snapshots>>
liveVars == <<feeds, liveSpot, apiOut, cliOut, reply>>
vars == <<scoreVars, orientVars, batchVars, publishVars, liveVars>>

\* Python's None, where the other values are records
None == [none |-> TRUE]

-----------------------------------------------------------------------------
(* Fixed-point trigonometry                                                *)

TrigScale == 1000

SinTable ==
    << 0, 17, 35, 52, 70, 87, 105, 122, 139, 156, 174, 191, 208, 225, 242,
       259, 276, 292, 309, 326, 342, 358, 375, 391, 407, 423, 438, 454, 469,
       485, 500, 515, 530, 545, 559, 574, 588, 602, 616, 629, 643, 656, 669,
       682, 695, 707, 719, 731, 743, 755, 766, 777, 788, 799, 809, 819, 829,
       839, 848, 857, 866, 875, 883, 891, 899, 906, 914, 921, 927, 934, 940,
       946, 951, 956, 961, 966, 970, 974, 978, 982, 985, 988, 990, 993, 995,
       996, 998, 999, 999, 1000, 1000 >>

\* np.sin(np.radians(d)) * TrigScale, d in whole degrees, any sign
Sin(d) ==
    LET m == d % 360
    IN  IF m <= 90 THEN SinTable[m + 1]
        ELSE IF m <= 180 THEN SinTable[180 - m + 1]
        ELSE IF m <= 270 THEN 0 - SinTable[m - 180 + 1]
        ELSE 0 - SinTable[360 - m + 1]

\* np.cos(np.radians(d)) * TrigScale
Cos(d) == Sin(d + 90)

DotUnit == TrigScale * TrigScale
\* one point of a quality score (wind_score, power_score)
Q == 3 * DotUnit
\* one point of the final score
F == 5 * Q

-----------------------------------------------------------------------------
(* core.py: calculate_physics_score                                        *)

GlassyKts == 5
GustSlackKts == 5
GustFactor == 2
PowerNorm == 300
WindWeight == 3     \* 0.6 = 3/5
SwellWeight == 2    \* 0.4 = 2/5

\* np.clip(v, lo, hi)
Clip(v, lo, hi) == IF v < lo THEN lo ELSE IF v > hi THEN hi ELSE v

\* lines 43-52: geometry, dot product, wind quality 0..100
DirectionScore(beach_facing_deg, wind_dir) ==
    LET beach_rad == 90 - beach_facing_deg
        wind_rad == 90 - wind_dir
        dot == (Cos(beach_rad) * Cos(wind_rad)) + (Sin(beach_rad) * Sin(wind_rad))
    IN  (((dot * (0 - 1)) + DotUnit) * 3 * 100) \div 2

\* line 56: wind_score = np.where(wind_speed < 5.0, 100.0, wind_score)
GlassyNever(wind_speed, wind_score) == wind_score
Glassy(wind_speed, wind_score) ==
    IF wind_speed < GlassyKts THEN 100 * Q ELSE wind_score

\* lines 59-64: the gust penalty
GustPenaltyNone(wind_speed, wind_gust, wind_score) == wind_score
GustPenalty(wind_speed, wind_gust, wind_score) ==
    LET gust_diff == wind_gust - wind_speed
        penalty0 == (gust_diff - GustSlackKts) * GustFactor * Q
        penalty == IF penalty0 < 0 THEN 0 ELSE penalty0
    IN  IF gust_diff > GustSlackKts THEN wind_score - penalty ELSE wind_score

\* lines 67-71: np.where always returns an ndarray (0-d for plain numbers),
\* so both forms take np.clip here; max(0, min(100, .)) computes the same.
ClampWind(wind_score) == Clip(wind_score, 0, 100 * Q)

WindQuality(beach_facing_deg, wind_dir, wind_speed, wind_gust) ==
    ClampWind(GustPenalty(wind_speed, wind_gust,
                Glassy(wind_speed, DirectionScore(beach_facing_deg, wind_dir))))

\* lines 74-75: power = h^2 * period; power_score = power / 300 * 100
PowerScore(swell_height, swell_period) ==
    ((swell_height * swell_height) * swell_period) * (Q \div PowerNorm) * 100

\* lines 76-80, plain numbers: min(power_score, 100)
ClampPowerScalar(power_score) ==
    IF power_score < 100 * Q THEN power_score ELSE 100 * Q

\* lines 76-80, ndarray: np.clip(power_score, 0, 100)
ClampPowerArray(power_score) == Clip(power_score, 0, 100 * Q)

\* line 83: final = wind_score * 0.6 + power_score * 0.4  (in units of 1/F)
Final(wind_score, power_score) ==
    (wind_score * WindWeight) + (power_score * SwellWeight)

\* the whole function on plain numbers
ScalarScore(in) ==
    LET w == WindQuality(in.beach, in.dir, in.speed, in.gust)
        p == ClampPowerScalar(PowerScore(in.height, in.period))
    IN  [wind |-> w, swell |-> p, final |-> Final(w, p)]

\* the whole function on one element of ndarray inputs
ArrayScoreAt(in) ==
    LET w == WindQuality(in.beach, in.dir, in.speed, in.gust)
        p == ClampPowerArray(PowerScore(in.height, in.period))
    IN  [wind |-> w, swell |-> p, final |-> Final(w, p)]

\* the whole function on a collection (element-wise)
BatchScore(ins) == [i \in DOMAIN ins |-> ArrayScoreAt(ins[i])]

-----------------------------------------------------------------------------
(* scan.py: scan_the_world, step 5 (the duplicated formula on columns)     *)

ScanScoreAt(in) ==
    LET beach_rad == 90 - in.beach
        wind_rad == 90 - in.dir
        dot == (Cos(beach_rad) * Cos(wind_rad)) + (Sin(beach_rad) * Sin(wind_rad))
        ws0 == (((dot * (0 - 1)) + DotUnit) * 3 * 100) \div 2
        ws1 == IF in.speed < GlassyKts THEN 100 * Q ELSE ws0
        gust_diff == in.gust - in.speed
        ws2 == IF gust_diff > GustSlackKts
               THEN ws1 - ((gust_diff - GustSlackKts) * GustFactor * Q)
               ELSE ws1
        w == Clip(ws2, 0, 100 * Q)
        power == (in.height * in.height) * in.period
        p == Clip(power * (Q \div PowerNorm) * 100, 0, 100 * Q)
    IN  [wind |-> w, swell |-> p, final |-> (w * WindWeight) + (p * SwellWeight)]

ScanScores(ins) == [i \in DOMAIN ins |-> ScanScoreAt(ins[i])]

-----------------------------------------------------------------------------
(* link_and_orient.py: calculate_beach_angle                               *)

\* num_points; the source's default is 36
NumPoints == 8
\* how many times the estimator is called on the same ring
MaxRuns == 2

Indeterminate == 0 - 1

\* line 16: angles = np.linspace(0, 2*pi, num_points, endpoint=False), in
\* degrees; sample point i (0-based) is ring[i + 1]
SampleAngle(i) == (i * 360) \div NumPoints

\* line 22: what globe.is_ocean answers for the sample points around one
\* coordinate (lines 17-20 only compute the points handed to it)
Rings == [1..NumPoints -> BOOLEAN]

RECURSIVE SumOver(_, _, _)
\* np.sum(f(angles[is_water])) over sample points i..NumPoints-1
SumOver(is_water, i, useCos) ==
    IF i >= NumPoints THEN 0
    ELSE (IF is_water[i + 1]
          THEN (IF useCos THEN Cos(SampleAngle(i)) ELSE Sin(SampleAngle(i)))
          ELSE 0)
         + SumOver(is_water, i + 1, useCos)

Abs(v) == IF v < 0 THEN 0 - v ELSE v

\* the first whole degree of the quadrant of the vector (x1, x2); the
\* quadrant is the 90 degrees from there
QuadrantOf(x2, x1) ==
    IF x2 >= 0 THEN (IF x1 >= 0 THEN 0 ELSE 90)
    ELSE (IF x1 >= 0 THEN 0 - 90 ELSE 0 - 180)

\* the direction among d..hi, or best, that the vector (x1, x2) is closest
\* to parallel with (smallest cross product), the first of equals
RECURSIVE ClosestDirection(_, _, _, _, _)
ClosestDirection(x2, x1, d, hi, best) ==
    IF d > hi THEN best
    ELSE IF Abs((x1 * Sin(d)) - (x2 * Cos(d))) < Abs((x1 * Sin(best)) - (x2 * Cos(best)))
         THEN ClosestDirection(x2, x1, d + 1, hi, d)
         ELSE ClosestDirection(x2, x1, d + 1, hi, best)

\* np.degrees(np.arctan2(x2, x1)) to the nearest whole degree, in -180..180:
\* the direction of the vector's quadrant closest to the vector (x1, x2);
\* arctan2(0, 0) is 0
Atan2Deg(x2, x1) ==
    IF x1 = 0 /\ x2 = 0 THEN 0
    ELSE LET lo == QuadrantOf(x2, x1)
         IN  ClosestDirection(x2, x1, lo + 1, lo + 90, lo)

\* lines 24-25 with "or not np.any(is_water)" left out
calculate_beach_angle_all_only(is_water) ==
    IF \A i \in 1..NumPoints : is_water[i]
    THEN Indeterminate
    ELSE Atan2Deg(SumOver(is_water, 0, FALSE), SumOver(is_water, 0, TRUE)) % 360

\* lines 14-31
calculate_beach_angle(is_water) ==
    IF (\A i \in 1..NumPoints : is_water[i]) \/ ~(\E i \in 1..NumPoints : is_water[i])
    THEN Indeterminate
    ELSE LET avg_north == SumOver(is_water, 0, TRUE)
             avg_east == SumOver(is_water, 0, FALSE)
         IN  Atan2Deg(avg_east, avg_north) % 360

OrientIdle ==
    /\ ring = [i \in 1..NumPoints |-> FALSE]
    /\ facings = <<>>

-----------------------------------------------------------------------------
(* Stations, spots and distances                                           *)

\* the most stations a catalog holds, and the most spots the registry holds
MaxStations == 2
MaxSpots == 1

\* a station id is a string: a sequence of characters
Digits == {"0", "1", "2", "3", "4", "5", "6", "7", "8", "9"}
NoId == <<>>

\* the stations there are, each where it is moored (whole degrees)
StationPool ==
    { [id |-> <<"4", "1">>, lat |-> 0, lon |-> 0],
      [id |-> <<"4", "2">>, lat |-> 0, lon |-> 20],
      [id |-> <<"F", "7">>, lat |-> 10, lon |-> 10] }

SpotPlaces ==
    { [lat |-> 0, lng |-> 10], [lat |-> 0, lng |-> 2],
      [lat |-> 8, lng |-> 10], [lat |-> 0, lng |-> 16] }

\* the sequences of at most n different elements of S, in every order
RECURSIVE Orderings(_, _)
Orderings(S, n) ==
    IF n = 0 \/ S = {} THEN {<<>>}
    ELSE {<<>>} \cup
         UNION { {<<e>> \o t : t \in Orderings(S \ {e}, n - 1)} : e \in S }

\* link_and_orient.py line 49: station_id matches ^\d+$
IsNumericId(id) == Len(id) >= 1 /\ \A i \in 1..Len(id) : id[i] \in Digits

\* cKDTree's metric on (lat, lon): Euclidean, compared by its square
Euclid2(lat1, lon1, lat2, lon2) ==
    ((lat2 - lat1) * (lat2 - lat1)) + ((lon2 - lon1) * (lon2 - lon1))

\* refresh_data.py haversine, lines 12-20.  The result R * c with
\* c = 2 * atan2(sqrt(a), sqrt(1 - a)) grows strictly with a on [0, 1], and
\* the caller only compares distances: the model returns a (in 1/DotUnit).
\* Coordinates are even degrees, so that dlat / 2 and dlon / 2 are whole.
haversine(lat1, lon1, lat2, lon2) ==
    LET dlat == lat2 - lat1
        dlon == lon2 - lon1
        sdlat == IF dlat >= 0 THEN Sin(dlat \div 2) ELSE 0 - Sin((0 - dlat) \div 2)
        sdlon == IF dlon >= 0 THEN Sin(dlon \div 2) ELSE 0 - Sin((0 - dlon) \div 2)
    IN  (sdlat * sdlat)
        + (((Cos(lat1) * Cos(lat2)) \div TrigScale) * ((sdlon * sdlon) \div TrigScale))

-----------------------------------------------------------------------------
(* link_and_orient.py: process_spots                                       *)

\* the indices of the rows nearest to (lat, lng) among the indices in among:
\* what a cKDTree query may return first (a tie is not decided by row order)
NearestOf(rows, among, lat, lng) ==
    {i \in among : \A j \in among :
        Euclid2(lat, lng, rows[i].lat, rows[i].lon)
            <= Euclid2(lat, lng, rows[j].lat, rows[j].lon)}

\* lines 49-56 and 60-83 for one spot: every assignment the two queries allow
LinkChoices(spot, buoys, facing) ==
    LET wave == {i \in 1..Len(buoys) : IsNumericId(buoys[i].station_id)}
    IN  { [lat |-> spot.lat, lng |-> spot.lng,
           primary_buoy_id |-> buoys[w].station_id,
           wind_station_id |->
               IF buoys[c1].station_id = buoys[w].station_id
               THEN buoys[c2].station_id ELSE buoys[c1].station_id,
           beach_facing_deg |-> facing] :
          <<w, c1, c2>> \in
            { t \in (1..Len(buoys)) \X (1..Len(buoys)) \X (1..Len(buoys)) :
                /\ t[1] \in NearestOf(buoys, wave, spot.lat, spot.lng)
                /\ t[2] \in NearestOf(buoys, 1..Len(buoys), spot.lat, spot.lng)
                /\ t[3] \in NearestOf(buoys, (1..Len(buoys)) \ {t[2]}, spot.lat, spot.lng) } }

\* lines 50-55 index an empty wave_buoys frame and lines 61-74 index row n
\* for a missing second neighbour: both raise, and nothing is written
CanLink(buoys) ==
    /\ Len(buoys) >= 2
    /\ \E i \in 1..Len(buoys) : IsNumericId(buoys[i].station_id)

\* lines 42-92: the registries process_spots may write
ProcessSpotsResults(spots, buoys, is_water) ==
    LET facing == calculate_beach_angle(is_water)
        all == UNION {LinkChoices(spots[i], buoys, facing) : i \in 1..Len(spots)}
    IN  {r \in [1..Len(spots) -> all] :
            \A i \in 1..Len(spots) : r[i] \in LinkChoices(spots[i], buoys, facing)}

-----------------------------------------------------------------------------
(* refresh_data.py: refresh                                                *)

\* lines 82-89 and 96-103: the loop that keeps the first nearest station;
\* best is the index kept so far, 0 while min_dist is still inf
RECURSIVE NearestScan(_, _, _, _, _)
NearestScan(stations, i, best, lat, lng) ==
    IF i > Len(stations) THEN best
    ELSE IF best = 0
            \/ haversine(lat, lng, stations[i].lat, stations[i].lon)
                 < haversine(lat, lng, stations[best].lat, stations[best].lon)
         THEN NearestScan(stations, i + 1, i, lat, lng)
         ELSE NearestScan(stations, i + 1, best, lat, lng)

BestId(stations, lat, lng) ==
    LET best == NearestScan(stations, 1, 0, lat, lng)
    IN  IF best = 0 THEN NoId ELSE stations[best].id

\* lines 38 and 42: the rows with a wave height, the rows with a wind speed
SwellStations(obs) == SelectSeq(obs, LAMBDA r : r.wvht)
WindStations(obs) == SelectSeq(obs, LAMBDA r : r.wspd)

\* lines 49-59: df_to_list
DfToList(rows) == [i \in 1..Len(rows) |-> [id |-> rows[i].id, lat |-> rows[i].lat, lon |-> rows[i].lon]]

\* lines 77-107 for one spot
RelinkSpot(spot, swell_stations, wind_stations) ==
    LET best_swell_id == BestId(swell_stations, spot.lat, spot.lng)
        best_wind_id == BestId(wind_stations, spot.lat, spot.lng)
    IN  [spot EXCEPT
           !.primary_buoy_id =
               IF best_swell_id # NoId /\ @ # best_swell_id THEN best_swell_id ELSE @,
           !.wind_station_id =
               IF best_wind_id # NoId /\ @ # best_wind_id THEN best_wind_id ELSE @]

\* lines 77-107: the loop over the spots
RelinkSpots(spots, swell_stations, wind_stations) ==
    [i \in 1..Len(spots) |-> RelinkSpot(spots[i], swell_stations, wind_stations)]

-----------------------------------------------------------------------------
(* The batch files before any job ran                                      *)

NoJob == [name |-> "none", ok |-> FALSE]

\* the number of batch jobs that may be started
NumJobs == 2
Jobs == 1..NumJobs

\* A file on disk is a sequence of equally long chunks: one per record, then
\* the closing bracket.  A chunk never written inside the file is a hole.
EndMark == [end |-> TRUE]
Hole == [hole |-> TRUE]
NoFile == [exists |-> FALSE, chunks |-> <<>>]

\* json.dump(spots, f) / spots_df.to_json(OUTPUT_FILE): the complete text
FileOf(rows) == rows \o <<EndMark>>

\* json.load / pd.read_json succeed on a file that exists and holds one
\* complete list of records
Parsable(f) ==
    /\ f.exists
    /\ Len(f.chunks) >= 1
    /\ f.chunks[Len(f.chunks)] = EndMark
    /\ \A i \in 1..(Len(f.chunks) - 1) : f.chunks[i] # EndMark /\ f.chunks[i] # Hole

RowsOf(f) == SubSeq(f.chunks, 1, Len(f.chunks) - 1)

IdleJob == [kind |-> "none", pc |-> "idle", mem |-> <<>>, pos |-> 0]

PublishIdle ==
    /\ jobs = [j \in Jobs |-> IdleJob]
    /\ apiDf = None
    /\ snapshots = {}

\* a station NOAA serves nothing for
NoFeed == [error |-> TRUE, row |-> None]

LiveIdle ==
    /\ feeds = [swell |-> NoFeed, wind |-> NoFeed]
    /\ liveSpot = None
    /\ apiOut = None
    /\ cliOut = None
    /\ reply = None

BatchIdle ==
    /\ stationTable = <<>>
    /\ latestObs = <<>>
    /\ rawSpots = <<>>
    /\ buoysFile = None
    /\ spotsFile = NoFile
    /\ lastJob = NoJob

-----------------------------------------------------------------------------
(* The scoring specification: inputs drawn from bounded sets               *)

BeachVals == {0, 90, 225, 0 - 30, 400}
DirVals == {0, 90, 270, 135}
SpeedVals == {0, 4, 5, 10}
GustVals == {0, 9, 10, 12, 16, 30, 70}
HeightVals == {0 - 2, 0, 2, 4}
PeriodVals == {0 - 1, 0, 10, 20}

Inputs ==
    [beach : BeachVals, dir : DirVals, speed : SpeedVals, gust : GustVals,
     height : HeightVals, period : PeriodVals]

NoScores == [scalar |-> None, batch |-> None, scan |-> None]

ScoreIdle ==
    /\ x = [beach |-> 0, dir |-> 0, speed |-> 0, gust |-> 0, height |-> 0, period |-> 0]
    /\ score = NoScores
    /\ prev = None

ScoreInit ==
    /\ x \in Inputs
    /\ score = NoScores
    /\ prev = None
    /\ OrientIdle
    /\ BatchIdle
    /\ PublishIdle
    /\ LiveIdle

\* calculate_physics_score(x...) with plain numbers
ScoreScalar ==
    /\ score.scalar = None
    /\ score' = [score EXCEPT !.scalar = ScalarScore(x)]
    /\ UNCHANGED <<x, prev, orientVars, batchVars, publishVars, liveVars>>

\* calculate_physics_score on one-element ndarrays, element 0
ScoreBatch ==
    /\ score.batch = None
    /\ score' = [score EXCEPT !.batch = BatchScore(<<x>>)[1]]
    /\ UNCHANGED <<x, prev, orientVars, batchVars, publishVars, liveVars>>

\* scan_the_world's formula on a one-row frame, row 0
ScoreScan ==
    /\ score.scan = None
    /\ score' = [score EXCEPT !.scan = ScanScores(<<x>>)[1]]
    /\ UNCHANGED <<x, prev, orientVars, batchVars, publishVars, liveVars>>

\* the same observation again with a stronger gust: the scored one is kept
\* as prev
RaiseGust ==
    /\ prev = None
    /\ score.scalar # None
    /\ \E g \in GustVals :
        /\ g > x.gust
        /\ prev' = [in |-> x, out |-> score.scalar]
        /\ x' = [x EXCEPT !.gust = g]
        /\ score' = NoScores
    /\ UNCHANGED <<orientVars, batchVars, publishVars, liveVars>>

ScoreNext == ScoreScalar \/ ScoreBatch \/ ScoreScan \/ RaiseGust

SpecScore == ScoreInit /\ [][ScoreNext]_vars

-----------------------------------------------------------------------------
(* Properties of the scoring function                                      *)

Scored == {r \in {score.scalar, score.batch, score.scan} : r # None}

\* C3 (as stated): whenever windSpeedKts < 5, whatever the gust, the wind
\* quality used in the final score is exactly 100 and the final score is
\* 60 + 0.4 * swellQuality.
C3_GlassyAnyGust ==
    x.speed < GlassyKts =>
        \A r \in Scored : r.wind = 100 * Q /\ r.final = (60 * F) + (SwellWeight * r.swell)

\* C3 (amended): whenever windSpeedKts < 5 and the gust exceeds the wind
\* speed by at most 5 kts, for any facing, wind direction and swell, the wind
\* quality is exactly 100 and the final score is 60 + 0.4 * swellQuality.
C3_GlassyNoGustPenalty ==
    (x.speed < GlassyKts /\ x.gust - x.speed <= GustSlackKts) =>
        \A r \in Scored : r.wind = 100 * Q /\ r.final = (60 * F) + (SwellWeight * r.swell)

\* a glassy, onshore observation (direction alone would score 0) was scored
C3_Witness ==
    /\ x.speed < GlassyKts
    /\ x.gust - x.speed <= GustSlackKts
    /\ x.beach = x.dir
    /\ DirectionScore(x.beach, x.dir) = 0
    /\ score.scalar # None
    /\ score.scalar.wind = 100 * Q

\* the previous observation and the current one differ in the gust only,
\* both gusts above windSpeedKts + 5, the current one the stronger
GustRaised ==
    /\ prev # None
    /\ score.scalar # None
    /\ [prev.in EXCEPT !.gust = x.gust] = x
    /\ x.speed + GustSlackKts < prev.in.gust
    /\ prev.in.gust < x.gust

\* C4 (as stated): with the other inputs fixed and
\* windSpeedKts + 5 < gust1 < gust2, the final score for gust2 is strictly
\* lower than the final score for gust1.
C4_GustStrictlyDecreases ==
    GustRaised => score.scalar.final < prev.out.final

\* C4 (amended): with the other inputs fixed and
\* windSpeedKts + 5 < gust1 < gust2, the final score for gust2 is never
\* higher than for gust1, and it is strictly lower whenever the wind quality
\* at gust1 is above 0 (not already clamped at 0).
C4_GustDecreasesUntilClamped ==
    GustRaised =>
        /\ score.scalar.final <= prev.out.final
        /\ prev.out.wind > 0 => score.scalar.final < prev.out.final

\* a penalised, unclamped observation was scored again with a stronger gust
C4_Witness ==
    /\ GustRaised
    /\ prev.out.wind > 0
    /\ prev.out.wind < 100 * Q
    /\ score.scalar.final < prev.out.final

\* C5: scoring x as plain numbers gives the same final score as element 0 of
\* scoring the one-element collection [x] element-wise (the ndarray branch
\* of calculate_physics_score, and scan_the_world's copy of the formula).
C5_ScalarEqualsBatch ==
    /\ (score.scalar # None /\ score.batch # None) =>
            score.scalar.final = score.batch.final
    /\ (score.scalar # None /\ score.scan # None) =>
            score.scalar.final = score.scan.final

\* C6: for all finite inputs the returned score lies in [0, 100], with the
\* wind-quality and the swell-quality component each in [0, 100].
C6_ScoreRange ==
    score.scalar # None =>
        /\ 0 <= score.scalar.final /\ score.scalar.final <= 100 * F
        /\ 0 <= score.scalar.wind /\ score.scalar.wind <= 100 * Q
        /\ 0 <= score.scalar.swell /\ score.scalar.swell <= 100 * Q

-----------------------------------------------------------------------------
(* The orientation specification: every classification of the ring        *)

OrientInit ==
    /\ ring \in Rings
    /\ facings = <<>>
    /\ ScoreIdle
    /\ BatchIdle
    /\ PublishIdle
    /\ LiveIdle

\* one call of calculate_beach_angle on the coordinate
EstimateAngle ==
    /\ Len(facings) < MaxRuns
    /\ facings' = Append(facings, calculate_beach_angle(ring))
    /\ UNCHANGED <<ring, scoreVars, batchVars, publishVars, liveVars>>

OrientNext == EstimateAngle

SpecOrient == OrientInit /\ [][OrientNext]_vars

AllWater == \A i \in 1..NumPoints : ring[i]
AllLand == \A i \in 1..NumPoints : ~ring[i]
NorthSum == SumOver(ring, 0, TRUE)
EastSum == SumOver(ring, 0, FALSE)

\* bearing b points along the vector (north, east) to within one degree:
\* the vector has no negative projection on b and lies between the
\* bearings b - 1 and b + 1
PointsAlong(b, north, east) ==
    LET proj(d) == (north * Cos(d)) + (east * Sin(d))
        cross(d) == (north * Sin(d)) - (east * Cos(d))
    IN  /\ proj(b) >= 0
        /\ cross(b - 1) <= 0
        /\ cross(b + 1) >= 0

-----------------------------------------------------------------------------
(* The batch jobs, one at a time                                           *)

StationTables ==
    { [i \in 1..Len(o) |-> [station_id |-> o[i].id, lat |-> o[i].lat, lon |-> o[i].lon]] :
        o \in Orderings(StationPool, MaxStations) }

ObsRows ==
    { [id |-> st.id, lat |-> st.lat, lon |-> st.lon, wvht |-> h, wspd |-> w] :
        st \in StationPool, h \in BOOLEAN, w \in BOOLEAN }

\* latest_obs.txt lists a station once
LatestObsFiles ==
    { o \in Orderings(ObsRows, MaxStations) :
        \A i, j \in 1..Len(o) : o[i].id = o[j].id => i = j }

SpotFiles == Orderings(SpotPlaces, MaxSpots) \ {<<>>}

\* a coast: the second half of the ring is water
CoastRing == [i \in 1..NumPoints |-> i > NumPoints \div 2]

AssignInit ==
    /\ stationTable \in StationTables
    /\ latestObs \in LatestObsFiles
    /\ rawSpots \in SpotFiles
    /\ ring \in {CoastRing, [i \in 1..NumPoints |-> FALSE]}
    /\ facings = <<>>
    /\ buoysFile = None
    /\ spotsFile = NoFile
    /\ lastJob = NoJob
    /\ ScoreIdle
    /\ PublishIdle
    /\ LiveIdle

\* ingest_buoys.py ingest: the station table becomes all_noaa_buoys.json
Ingest ==
    /\ buoysFile' = [key |-> "station_id", rows |-> stationTable]
    /\ lastJob' = [name |-> "ingest", ok |-> TRUE]
    /\ UNCHANGED <<worldVars, spotsFile, scoreVars, orientVars, publishVars, liveVars>>

\* link_and_orient.py process_spots, run to its end.  It needs a buoys file
\* with a station_id column (refresh rewrites the file with an id column).
ProcessSpots ==
    LET ok == /\ buoysFile # None
              /\ buoysFile.key = "station_id"
              /\ CanLink(buoysFile.rows)
    IN  /\ lastJob' = [name |-> "process_spots", ok |-> ok]
        /\ IF ok
           THEN \E r \in ProcessSpotsResults(rawSpots, buoysFile.rows, ring) :
                    spotsFile' = [exists |-> TRUE, chunks |-> FileOf(r)]
           ELSE UNCHANGED spotsFile
        /\ UNCHANGED <<worldVars, buoysFile, scoreVars, orientVars, publishVars, liveVars>>

\* refresh_data.py refresh, run to its end.  A failed download returns at
\* once; a missing or unparsable registry raises after the buoys file was
\* rewritten.
Refresh ==
    \E downloaded \in BOOLEAN :
        LET swell_stations == DfToList(SwellStations(latestObs))
            wind_stations == DfToList(WindStations(latestObs))
            loaded == Parsable(spotsFile)
        IN  /\ lastJob' = [name |-> "refresh", ok |-> downloaded /\ loaded]
            /\ buoysFile' = IF downloaded
                            THEN [key |-> "id", rows |-> swell_stations]
                            ELSE buoysFile
            /\ spotsFile' = IF downloaded /\ loaded
                            THEN [exists |-> TRUE,
                                  chunks |-> FileOf(RelinkSpots(RowsOf(spotsFile),
                                                swell_stations, wind_stations))]
                            ELSE spotsFile
            /\ UNCHANGED <<worldVars, scoreVars, orientVars, publishVars, liveVars>>

AssignNext == Ingest \/ ProcessSpots \/ Refresh

SpecAssign == AssignInit /\ [][AssignNext]_vars

-----------------------------------------------------------------------------
(* Properties of the batch assignment jobs                                 *)

JobDone(name) == lastJob = [name |-> name, ok |-> TRUE]

Diverse(rows) ==
    \A i \in 1..Len(rows) : rows[i].primary_buoy_id # rows[i].wind_station_id

\* C1: after any run of a batch assignment job (process_spots or refresh)
\* over a catalog that offers at least 2 distinct stations, every Location
\* of the published registry has swellStationId # windStationId.
C1_SensorDiversity ==
    /\ (JobDone("process_spots") /\ Len(buoysFile.rows) >= 2) => Diverse(RowsOf(spotsFile))
    /\ (JobDone("refresh") /\ Len(WindStations(latestObs)) >= 2) => Diverse(RowsOf(spotsFile))

\* station k of rows is a numeric-id station at the least distance from the
\* spot among the numeric-id stations, and the first such in catalog order
FirstNearestNumeric(rows, k, IdOf(_), Dist(_)) ==
    /\ IsNumericId(IdOf(rows[k]))
    /\ \A j \in 1..Len(rows) :
         IsNumericId(IdOf(rows[j])) =>
            /\ Dist(rows[k]) <= Dist(rows[j])
            /\ Dist(rows[j]) = Dist(rows[k]) => k <= j

\* C8: for every location and every catalog with at least one numeric-id
\* station, each batch assignment job sets swellStationId to a numeric-id
\* station at minimal distance among all numeric-id stations, the first in
\* catalog order when several are equally near.
C8_SwellNearestNumeric ==
    /\ JobDone("process_spots") =>
         \A i \in 1..Len(RowsOf(spotsFile)) :
            LET spot == RowsOf(spotsFile)[i]
            IN  \E k \in 1..Len(buoysFile.rows) :
                  /\ buoysFile.rows[k].station_id = spot.primary_buoy_id
                  /\ FirstNearestNumeric(buoysFile.rows, k,
                        LAMBDA r : r.station_id,
                        LAMBDA r : Euclid2(spot.lat, spot.lng, r.lat, r.lon))
    /\ (JobDone("refresh") /\ \E k \in 1..Len(latestObs) : IsNumericId(latestObs[k].id)) =>
         \A i \in 1..Len(RowsOf(spotsFile)) :
            LET spot == RowsOf(spotsFile)[i]
            IN  \E k \in 1..Len(latestObs) :
                  /\ latestObs[k].id = spot.primary_buoy_id
                  /\ FirstNearestNumeric(latestObs, k,
                        LAMBDA r : r.id,
                        LAMBDA r : haversine(spot.lat, spot.lng, r.lat, r.lon))

\* the part of C8 that is about refresh alone: with a numeric-id station in
\* the catalog, refresh sets a numeric swellStationId
RefreshSwellIsNumeric ==
    (JobDone("refresh") /\ \E k \in 1..Len(latestObs) : IsNumericId(latestObs[k].id)) =>
        \A i \in 1..Len(RowsOf(spotsFile)) :
            IsNumericId(RowsOf(spotsFile)[i].primary_buoy_id)

CatalogIds == {latestObs[k].id : k \in 1..Len(latestObs)}

\* C9: after a re-run against a new catalog every Location's swellStationId
\* and windStationId are determined by its coordinates and the new catalog
\* alone (the nearest candidate, none when there is no candidate); no
\* Location keeps the id of a station that is absent from the new catalog.
C9_CompleteReplace ==
    JobDone("refresh") =>
        \A i \in 1..Len(RowsOf(spotsFile)) :
            LET spot == RowsOf(spotsFile)[i]
            IN  /\ spot.primary_buoy_id =
                     BestId(DfToList(SwellStations(latestObs)), spot.lat, spot.lng)
                /\ spot.wind_station_id =
                     BestId(DfToList(WindStations(latestObs)), spot.lat, spot.lng)
                /\ spot.primary_buoy_id \in CatalogIds \cup {NoId}
                /\ spot.wind_station_id \in CatalogIds \cup {NoId}

-----------------------------------------------------------------------------
(* The batch jobs step by step, beside the online service                  *)

\* a job's write of chunk c at its own file offset pos (1-based): inside
\* the file it overwrites, at the end it appends, beyond it leaves holes
WriteAt(chunks, pos, c) ==
    IF pos <= Len(chunks) THEN [chunks EXCEPT ![pos] = c]
    ELSE chunks \o [i \in 1..(pos - Len(chunks) - 1) |-> Hole] \o <<c>>

\* every row has both sensors
FullObsFiles ==
    { o \in LatestObsFiles : \A i \in 1..Len(o) : o[i].wvht /\ o[i].wspd }

\* the service is deployed: ingest and process_spots ran once
PublishInit ==
    /\ stationTable \in {t \in StationTables : Len(t) = MaxStations}
    /\ latestObs \in FullObsFiles
    /\ rawSpots \in SpotFiles
    /\ ring = CoastRing
    /\ facings = <<>>
    /\ buoysFile = [key |-> "station_id", rows |-> stationTable]
    /\ \E r \in ProcessSpotsResults(rawSpots, stationTable, ring) :
         /\ spotsFile = [exists |-> TRUE, chunks |-> FileOf(r)]
         /\ snapshots = {r}
    /\ lastJob = [name |-> "process_spots", ok |-> TRUE]
    /\ jobs = [j \in Jobs |-> IdleJob]
    /\ apiDf = None
    /\ ScoreIdle
    /\ LiveIdle

\* refresh_data.py lines 23-107: download, rewrite the buoys file, load the
\* registry and relink it in memory.  A failed download returns; a registry
\* that does not parse raises.
RefreshCompute(j) ==
    /\ jobs[j].pc = "idle"
    /\ \E downloaded \in BOOLEAN :
        LET swell_stations == DfToList(SwellStations(latestObs))
            wind_stations == DfToList(WindStations(latestObs))
            new == RelinkSpots(RowsOf(spotsFile), swell_stations, wind_stations)
        IN  IF ~downloaded
            THEN /\ jobs' = [jobs EXCEPT ![j] = [@ EXCEPT !.kind = "refresh", !.pc = "done"]]
                 /\ UNCHANGED <<buoysFile, snapshots>>
            ELSE /\ buoysFile' = [key |-> "id", rows |-> swell_stations]
                 /\ IF Parsable(spotsFile)
                    THEN /\ jobs' = [jobs EXCEPT ![j] =
                                [kind |-> "refresh", pc |-> "computed", mem |-> new, pos |-> 0]]
                         /\ snapshots' = snapshots \cup {new}
                    ELSE /\ jobs' = [jobs EXCEPT ![j] = [@ EXCEPT !.kind = "refresh", !.pc = "crashed"]]
                         /\ UNCHANGED snapshots
    /\ UNCHANGED <<worldVars, spotsFile, lastJob, apiDf, scoreVars, orientVars, liveVars>>

\* link_and_orient.py lines 34-90: load both files, link and orient in memory
ProcessSpotsCompute(j) ==
    /\ jobs[j].pc = "idle"
    /\ IF buoysFile # None /\ buoysFile.key = "station_id" /\ CanLink(buoysFile.rows)
       THEN \E r \in ProcessSpotsResults(rawSpots, buoysFile.rows, ring) :
                /\ jobs' = [jobs EXCEPT ![j] =
                        [kind |-> "process_spots", pc |-> "computed", mem |-> r, pos |-> 0]]
                /\ snapshots' = snapshots \cup {r}
       ELSE /\ jobs' = [jobs EXCEPT ![j] = [@ EXCEPT !.kind = "process_spots", !.pc = "crashed"]]
            /\ UNCHANGED snapshots
    /\ UNCHANGED <<worldVars, buoysFile, spotsFile, lastJob, apiDf, scoreVars, orientVars, liveVars>>

\* refresh_data.py line 110, link_and_orient.py line 92: open(.., "w")
\* truncates the registry file in place
OpenForWrite(j) ==
    /\ jobs[j].pc = "computed"
    /\ spotsFile' = [exists |-> TRUE, chunks |-> <<>>]
    /\ jobs' = [jobs EXCEPT ![j] = [@ EXCEPT !.pc = "writing", !.pos = 1]]
    /\ UNCHANGED <<worldVars, buoysFile, lastJob, apiDf, snapshots, scoreVars, orientVars, liveVars>>

\* refresh_data.py line 111, link_and_orient.py line 92: the text reaches
\* the file one buffer at a time
WriteChunk(j) ==
    /\ jobs[j].pc = "writing"
    /\ jobs[j].pos <= Len(FileOf(jobs[j].mem))
    /\ spotsFile' = [exists |-> TRUE,
                     chunks |-> WriteAt(spotsFile.chunks, jobs[j].pos,
                                        FileOf(jobs[j].mem)[jobs[j].pos])]
    /\ jobs' = [jobs EXCEPT ![j] = [@ EXCEPT !.pos = @ + 1]]
    /\ UNCHANGED <<worldVars, buoysFile, lastJob, apiDf, snapshots, scoreVars, orientVars, liveVars>>

\* the file is closed and the job ends
CloseFile(j) ==
    /\ jobs[j].pc = "writing"
    /\ jobs[j].pos > Len(FileOf(jobs[j].mem))
    /\ jobs' = [jobs EXCEPT ![j] = [@ EXCEPT !.pc = "done"]]
    /\ lastJob' = [name |-> jobs[j].kind, ok |-> TRUE]
    /\ UNCHANGED <<worldVars, buoysFile, spotsFile, apiDf, snapshots, scoreVars, orientVars, liveVars>>

\* api.py lines 18-23: the service starts and loads the registry; a file
\* that is missing or does not parse gives the empty DataFrame
ApiLoad ==
    /\ apiDf = None
    /\ apiDf' = [rows |-> IF Parsable(spotsFile) THEN RowsOf(spotsFile) ELSE <<>>]
    /\ UNCHANGED <<batchVars, jobs, snapshots, scoreVars, orientVars, liveVars>>

PublishNext ==
    \/ \E j \in Jobs :
         \/ RefreshCompute(j)
         \/ ProcessSpotsCompute(j)
         \/ OpenForWrite(j)
         \/ WriteChunk(j)
         \/ CloseFile(j)
    \/ ApiLoad

SpecPublish == PublishInit /\ [][PublishNext]_vars

\* C2: while a batch job rewrites the registry, the service that loads it
\* observes either the complete old registry or the complete new one,
\* never an empty, truncated or partially-updated registry.
C2_AtomicPublish ==
    apiDf # None => apiDf.rows \in snapshots

-----------------------------------------------------------------------------
(* core.py: fetch_single_station_data; api.py: get_live_report;            *)
(* main.py: get_dual_data and the report under __main__                    *)
(* A Series is a function from its labels to cells; a cell is <<v>> for a  *)
(* number and <<>> for NaN.                                                *)

\* line 15: na_values="MM" reads as NaN
MM == <<>>

Val(c) == c[1]

\* line 26-27: *= 1.94384 (m/s -> knots), to whole knots; NaN stays NaN
Knots(c) == IF c = MM THEN MM ELSE <<(Val(c) * 194384) \div 100000>>

\* line 28: *= 3.28084 (m -> ft), to whole feet; NaN stays NaN
Feet(c) == IF c = MM THEN MM ELSE <<(Val(c) * 328084) \div 100000>>

\* lines 16-24: df.rename(columns=...)
Renamed(k) ==
    CASE k = "WDIR" -> "WindDir"
      [] k = "WSPD" -> "WindSpeed"
      [] k = "GST" -> "WindGust"
      [] k = "WVHT" -> "SwellHeight"
      [] k = "DPD" -> "SwellPeriod"
      [] OTHER -> k

\* any exception (no file, or no WSPD / GST / WVHT column to convert) gives
\* None; otherwise the first row under the renamed labels
fetch_single_station_data(feed) ==
    IF feed.error THEN None
    ELSE LET cols == DOMAIN feed.row
             names == {Renamed(k) : k \in cols}
         IN  IF ~({"WindSpeed", "WindGust", "SwellHeight"} \subseteq names)
             THEN None
             ELSE [n \in names |->
                     LET k == CHOOSE c \in cols : Renamed(c) = n
                     IN  IF n \in {"WindSpeed", "WindGust"} THEN Knots(feed.row[k])
                         ELSE IF n = "SwellHeight" THEN Feet(feed.row[k])
                         ELSE feed.row[k]]

\* pd.Series(dtype=float)
EmptySeries == [n \in {} |-> MM]

\* Series.get(k, default)
Get(s, k, default) == IF k \in DOMAIN s THEN s[k] ELSE default

\* s[k] = v
SetItem(s, k, v) == [n \in DOMAIN s \cup {k} |-> IF n = k THEN v ELSE s[n]]

\* Series.fillna(0.0)
fillna(s) == [n \in DOMAIN s |-> IF s[n] = MM THEN <<0>> ELSE s[n]]

\* round(score, 1) and f"{score:.1f}": the final score in tenths
Round1(f) ==
    LET u == F \div 10
        q == f \div u
        r == f % u
    IN  IF (2 * r > u) \/ (2 * r = u /\ q % 2 = 1) THEN q + 1 ELSE q

\* the text "--" shown for a temperature that is not known
Dash == [text |-> "--"]

\* api.py lines 90-91: f"{val:.1f}\u00b0F" if pd.notna(val) and val != 0 else "--"
fmt_temp(val) ==
    IF val # MM /\ Val(val) # 0 THEN [text |-> "F", value |-> Val(val)] ELSE Dash

\* api.py lines 101-102: fmt_temp(data.get(k)); data.get(k) is the Python
\* None for a label the Series lacks, and pd.notna(None) is False
ShownTemp(data, k) == IF k \in DOMAIN data THEN fmt_temp(data[k]) ELSE Dash

\* a raised KeyError
Raise(k) == [raised |-> "KeyError", key |-> k]

IsRaised(v) == "raised" \in DOMAIN v

\* api.py lines 55-104, for a location found in the registry
get_live_report(spot, f) ==
    LET swell_data == fetch_single_station_data(f.swell)
        wind_data == fetch_single_station_data(f.wind)
    IN  IF swell_data = None /\ wind_data = None
        THEN [status |-> 503]
        ELSE LET d0 == IF swell_data # None THEN swell_data ELSE EmptySeries
                 d1 == SetItem(d0, "WindSpeed", Get(wind_data, "WindSpeed", <<0>>))
                 d2 == SetItem(d1, "WindGust", Get(wind_data, "WindGust", <<0>>))
                 d3 == SetItem(d2, "WindDir", Get(wind_data, "WindDir", <<0>>))
                 d4 == IF "WaterTemp" \in DOMAIN wind_data
                       THEN SetItem(d3, "WaterTemp", wind_data["WaterTemp"])
                       ELSE d3
                 d5 == IF "AirTemp" \in DOMAIN wind_data
                       THEN SetItem(d4, "AirTemp", wind_data["AirTemp"])
                       ELSE d4
                 data == IF wind_data # None THEN d5 ELSE d0
                 physics_data == fillna(data)
                 sc == ScalarScore(
                         [beach |-> spot.beach_facing_deg,
                          dir |-> Val(Get(physics_data, "WindDir", <<0>>)),
                          speed |-> Val(Get(physics_data, "WindSpeed", <<0>>)),
                          gust |-> Val(Get(physics_data, "WindGust", <<0>>)),
                          height |-> Val(Get(physics_data, "SwellHeight", <<0>>)),
                          period |-> Val(Get(physics_data, "SwellPeriod", <<0>>))])
             IN  [status |-> 200, score |-> Round1(sc.final),
                  data |-> data, physics_data |-> physics_data,
                  water_temp |-> ShownTemp(data, "WaterTemp"),
                  air_temp |-> ShownTemp(data, "AirTemp")]

\* the first label of ks that s lacks, as a sequence of at most one label
FirstMissing(s, ks) == SelectSeq(ks, LAMBDA k : k \notin DOMAIN s)

\* main.py lines 9-26
get_dual_data(spot, f) ==
    LET s_data == fetch_single_station_data(f.swell)
        w_data == fetch_single_station_data(f.wind)
    IN  IF s_data = None /\ w_data = None
        THEN None
        ELSE LET m0 == IF s_data # None THEN s_data ELSE EmptySeries
                 miss == FirstMissing(w_data, <<"WindSpeed", "WindGust", "WindDir">>)
             IN  IF w_data = None THEN fillna(m0)
                 ELSE IF miss # <<>> THEN Raise(miss[1])
                 ELSE fillna(SetItem(SetItem(SetItem(m0,
                          "WindSpeed", w_data["WindSpeed"]),
                          "WindGust", w_data["WindGust"]),
                          "WindDir", w_data["WindDir"]))

\* main.py lines 53-67: nothing is reported when data is None; an uncaught
\* KeyError ends the program with a traceback
main_report(spot, f) ==
    LET data == get_dual_data(spot, f)
    IN  IF data = None THEN [status |-> "offline"]
        ELSE IF IsRaised(data) THEN [status |-> "traceback", error |-> data]
        ELSE LET miss == FirstMissing(data,
                     <<"WindDir", "WindSpeed", "WindGust", "SwellHeight", "SwellPeriod">>)
             IN  IF miss # <<>>
                 THEN [status |-> "traceback", error |-> Raise(miss[1])]
                 ELSE [status |-> "scored",
                       score |-> Round1(ScalarScore(
                           [beach |-> spot.beach_facing_deg,
                            dir |-> Val(data["WindDir"]),
                            speed |-> Val(data["WindSpeed"]),
                            gust |-> Val(data["WindGust"]),
                            height |-> Val(data["SwellHeight"]),
                            period |-> Val(data["SwellPeriod"])]).final),
                       data |-> data]

-----------------------------------------------------------------------------
(* Live reports: one query of a known location through each entry point    *)

\* the columns of a realtime2 file that the engine reads
MetCols == {"WDIR", "WSPD", "GST", "WVHT", "DPD"}

\* the temperature columns of a realtime2 file
TempCols == {"WTMP", "ATMP"}

\* files come with all the columns or with one of them missing
ColumnSets == {MetCols} \cup {MetCols \ {c} : c \in MetCols}

\* the newest value of a column: missing ("MM") or a reading in NOAA's units
ColumnVals(c) ==
    CASE c = "WDIR" -> {MM, <<270>>}
      [] c = "WSPD" -> {MM, <<6>>}
      [] c = "GST" -> {MM, <<12>>}
      [] c = "WVHT" -> {MM, <<1>>}
      [] c = "DPD" -> {MM, <<10>>}
      [] c = "WTMP" -> {MM, <<15>>}
      [] c = "ATMP" -> {MM, <<12>>}

FeedRows ==
    UNION {{r \in [cols \cup TempCols -> {MM, <<270>>, <<6>>, <<12>>, <<1>>, <<10>>, <<15>>}] :
               \A c \in cols \cup TempCols : r[c] \in ColumnVals(c)} : cols \in ColumnSets}

Feeds == {NoFeed} \cup {[error |-> FALSE, row |-> r] : r \in FeedRows}

LiveFacings == {90, Indeterminate}

LiveInit ==
    /\ feeds \in [swell : Feeds, wind : Feeds]
    /\ liveSpot \in [beach_facing_deg : LiveFacings]
    /\ apiOut = None
    /\ cliOut = None
    /\ reply = None
    /\ ScoreIdle
    /\ OrientIdle
    /\ BatchIdle
    /\ PublishIdle

\* GET /live/{spot_name}
ApiLiveReport ==
    /\ apiOut = None
    /\ apiOut' = get_live_report(liveSpot, feeds)
    /\ UNCHANGED <<feeds, liveSpot, cliOut, reply, scoreVars, orientVars, batchVars, publishVars>>

\* python main.py <name>
MainReport ==
    /\ cliOut = None
    /\ cliOut' = main_report(liveSpot, feeds)
    /\ UNCHANGED <<feeds, liveSpot, apiOut, reply, scoreVars, orientVars, batchVars, publishVars>>

LiveNext == ApiLiveReport \/ MainReport

SpecLive == LiveInit /\ [][LiveNext]_vars

BothAbsent ==
    /\ fetch_single_station_data(feeds.swell) = None
    /\ fetch_single_station_data(feeds.wind) = None

\* C7: a live report of a known location is the Unavailable outcome exactly
\* when both the swell fetch and the wind fetch returned nothing; with at
\* least one reading present, whatever fields it has, the report carries a
\* score and never fails in fusion or scoring.  Stated of both entry points.
C7_UnavailableIffBothAbsent ==
    /\ apiOut # None =>
          IF BothAbsent THEN apiOut.status = 503 ELSE apiOut.status = 200
    /\ cliOut # None =>
          IF BothAbsent THEN cliOut.status = "offline" ELSE cliOut.status = "scored"

\* the same statement of the web service alone
ApiUnavailableIffBothAbsent ==
    apiOut # None =>
        IF BothAbsent THEN apiOut.status = 503 ELSE apiOut.status = 200

\* the command-line report fails only for want of a label: no swell
\* reading, or readings without a period or a direction
CliFailsOnlyOnMissingLabel ==
    (cliOut # None /\ cliOut.status = "traceback") =>
        LET s == fetch_single_station_data(feeds.swell)
            w == fetch_single_station_data(feeds.wind)
        IN  \/ s = None
            \/ "SwellPeriod" \notin DOMAIN s
            \/ (w # None /\ "WindDir" \notin DOMAIN w)
            \/ (w = None /\ "WindDir" \notin DOMAIN s)

\* a wind reading with every column and no swell reading at all
WindOnlyFullColumns ==
    /\ feeds.swell.error
    /\ ~feeds.wind.error
    /\ MetCols \subseteq DOMAIN feeds.wind.row

\* with only the wind station reporting, the command-line report is scored
CliScoresWindOnly ==
    (cliOut # None /\ WindOnlyFullColumns) => cliOut.status = "scored"

-----------------------------------------------------------------------------
(* Temperatures in the live report                                         *)

\* whether a reading is present and has a value under the column
HasValue(reading, col) ==
    /\ reading # None
    /\ col \in DOMAIN reading
    /\ reading[col] # MM

\* the temperature the fused observation should show: the wind reading's
\* value, else the swell reading's, else unknown
FusedTemp(col) ==
    LET s == fetch_single_station_data(feeds.swell)
        w == fetch_single_station_data(feeds.wind)
    IN  IF HasValue(w, col) THEN [text |-> "F", value |-> Val(w[col])]
        ELSE IF HasValue(s, col) THEN [text |-> "F", value |-> Val(s[col])]
        ELSE Dash

ApiReported == apiOut # None /\ apiOut.status = 200

\* C11: in a live report the water and the air temperature are each the wind
\* reading's value when it has one, else the swell reading's value when it
\* has one, and unknown only when neither reading has a value.
C11_TemperatureFusion ==
    ApiReported =>
        /\ apiOut.water_temp = FusedTemp("WTMP")
        /\ apiOut.air_temp = FusedTemp("ATMP")

\* what the service does instead: both temperatures are always shown unknown
ApiTempsAlwaysUnknown ==
    ApiReported => (apiOut.water_temp = Dash /\ apiOut.air_temp = Dash)

-----------------------------------------------------------------------------
(* api.py: the query operations over the registry loaded at startup        *)
(* Names and queries are sequences of characters.                          *)

\* str.lower(), on the characters in use
Lower(c) ==
    CASE c = "A" -> "a"
      [] c = "B" -> "b"
      [] OTHER -> c

LowerStr(str) == [i \in 1..Len(str) |-> Lower(str[i])]

\* str.contains(q, case=False) for a q without regular-expression characters
Contains(str, q) ==
    \E i \in 0..(Len(str) - Len(q)) :
        SubSeq(LowerStr(str), i + 1, i + Len(q)) = LowerStr(q)

\* difflib.SequenceMatcher(a, b): the total size of the matching blocks, the
\* longest common block first (leftmost in a, then leftmost in b), then the
\* same to the left and to the right of it
RECURSIVE MatchingSize(_, _)
MatchingSize(a, b) ==
    LET common == { t \in (1..Len(a)) \X (1..Len(b)) \X (1..Len(a)) :
                      /\ t[1] + t[3] - 1 <= Len(a)
                      /\ t[2] + t[3] - 1 <= Len(b)
                      /\ SubSeq(a, t[1], t[1] + t[3] - 1) = SubSeq(b, t[2], t[2] + t[3] - 1) }
    IN  IF common = {} THEN 0
        ELSE LET best == CHOOSE t \in common : \A u \in common :
                            \/ t[3] > u[3]
                            \/ (t[3] = u[3] /\ t[1] < u[1])
                            \/ (t[3] = u[3] /\ t[1] = u[1] /\ t[2] <= u[2])
             IN  best[3]
                 + MatchingSize(SubSeq(a, 1, best[1] - 1), SubSeq(b, 1, best[2] - 1))
                 + MatchingSize(SubSeq(a, best[1] + best[3], Len(a)),
                                SubSeq(b, best[2] + best[3], Len(b)))

\* difflib.get_close_matches(q, names, n=5, cutoff=0.6): the names nm with
\* ratio 2*M/(len(nm)+len(q)) >= 0.6 (a registry here has fewer than 5 rows)
CloseMatches(q, names) ==
    { nm \in names : 10 * MatchingSize(nm, q) >= 3 * (Len(nm) + Len(q)) }

\* the columns of a DataFrame read from a list of records
Columns(df) == UNION {DOMAIN df.rows[i] : i \in 1..Len(df.rows)}

\* df[["name", "lat", "lng", "country"]].to_dict(orient="records")
MapFields(rows) ==
    [i \in 1..Len(rows) |->
        [name |-> rows[i].name, lat |-> rows[i].lat,
         lng |-> rows[i].lng, country |-> rows[i].country]]

\* lines 26-31
get_all_spots(df) ==
    IF df.rows = <<>> THEN <<>> ELSE MapFields(df.rows)

\* lines 34-44
search_spots(df, q) ==
    IF df.rows = <<>> THEN <<>>
    ELSE LET results == SelectSeq(df.rows, LAMBDA r : Contains(r.name, q))
             matches == CloseMatches(q, {df.rows[i].name : i \in 1..Len(df.rows)})
         IN  IF results = <<>>
             THEN MapFields(SelectSeq(df.rows, LAMBDA r : r.name \in matches))
             ELSE MapFields(results)

\* lines 47-104: spots_df["name"] raises KeyError on a frame without that
\* column, which the framework answers with a 500
live(df, spot_name, f) ==
    IF "name" \notin Columns(df)
    THEN [status |-> 500, error |-> Raise("name")]
    ELSE LET match == SelectSeq(df.rows,
                          LAMBDA r : LowerStr(r.name) = LowerStr(spot_name))
         IN  IF match = <<>> THEN [status |-> 404]
             ELSE get_live_report(match[1], f)

-----------------------------------------------------------------------------
(* The service: started over some registry file, then queried              *)

SpotAb ==
    [name |-> <<"A", "b">>, country |-> "PT", lat |-> 0, lng |-> 2,
     primary_buoy_id |-> <<"4", "1">>, wind_station_id |-> <<"4", "2">>,
     beach_facing_deg |-> 90]

SpotBa ==
    [name |-> <<"b", "a">>, country |-> "US", lat |-> 0, lng |-> 16,
     primary_buoy_id |-> <<"4", "2">>, wind_station_id |-> <<"4", "1">>,
     beach_facing_deg |-> Indeterminate]

\* the registry file at startup: missing, empty, cut short, an empty list,
\* or a complete list of spots
ServiceFiles ==
    { NoFile,
      [exists |-> TRUE, chunks |-> <<>>],
      [exists |-> TRUE, chunks |-> <<SpotAb>>],
      [exists |-> TRUE, chunks |-> FileOf(<<>>)],
      [exists |-> TRUE, chunks |-> FileOf(<<SpotAb>>)],
      [exists |-> TRUE, chunks |-> FileOf(<<SpotBa>>)],
      [exists |-> TRUE, chunks |-> FileOf(<<SpotAb, SpotBa>>)],
      [exists |-> TRUE, chunks |-> FileOf(<<SpotBa, SpotAb>>)] }

Queries == { <<"a">>, <<"a", "b">>, <<"b", "a", "b">>, <<"B", "A">>, <<"x">> }

FullRow ==
    [WDIR |-> <<270>>, WSPD |-> <<6>>, GST |-> <<12>>, WVHT |-> <<1>>,
     DPD |-> <<10>>, WTMP |-> <<15>>, ATMP |-> MM]

ServiceFeeds ==
    { [swell |-> NoFeed, wind |-> NoFeed],
      [swell |-> NoFeed, wind |-> [error |-> FALSE, row |-> FullRow]],
      [swell |-> [error |-> FALSE, row |-> FullRow], wind |-> NoFeed] }

ServiceInit ==
    /\ spotsFile \in ServiceFiles
    /\ feeds \in ServiceFeeds
    /\ apiDf = None
    /\ reply = None
    /\ liveSpot = None
    /\ apiOut = None
    /\ cliOut = None
    /\ stationTable = <<>>
    /\ latestObs = <<>>
    /\ rawSpots = <<>>
    /\ buoysFile = None
    /\ lastJob = NoJob
    /\ jobs = [j \in Jobs |-> IdleJob]
    /\ snapshots = {}
    /\ ScoreIdle
    /\ OrientIdle

\* GET /all
GetAllSpots ==
    /\ apiDf # None
    /\ reply' = [op |-> "all", out |-> get_all_spots(apiDf)]
    /\ UNCHANGED <<feeds, liveSpot, apiOut, cliOut, scoreVars, orientVars, batchVars, publishVars>>

\* GET /search?q=
SearchSpots ==
    /\ apiDf # None
    /\ \E q \in Queries :
         reply' = [op |-> "search", q |-> q, out |-> search_spots(apiDf, q)]
    /\ UNCHANGED <<feeds, liveSpot, apiOut, cliOut, scoreVars, orientVars, batchVars, publishVars>>

\* GET /live/{spot_name}
GetLiveReport ==
    /\ apiDf # None
    /\ \E q \in Queries :
         reply' = [op |-> "live", q |-> q, out |-> live(apiDf, q, feeds)]
    /\ UNCHANGED <<feeds, liveSpot, apiOut, cliOut, scoreVars, orientVars, batchVars, publishVars>>

ServiceNext == ApiLoad \/ GetAllSpots \/ SearchSpots \/ GetLiveReport

SpecService == ServiceInit /\ [][ServiceNext]_vars

\* the service runs over an empty registry
Degraded == apiDf # None /\ apiDf.rows = <<>>

\* C12: over a registry that was empty or unreadable at startup every query
\* has a defined outcome: the listing and the search return the empty list
\* and a live report for any name is the 404 outcome.
C12_DegradedMode ==
    (Degraded /\ reply # None) =>
        CASE reply.op = "all" -> reply.out = <<>>
          [] reply.op = "search" -> reply.out = <<>>
          [] reply.op = "live" -> reply.out.status = 404

\* the same statement of the listing and the search alone
DegradedListAndSearch ==
    (Degraded /\ reply # None /\ reply.op # "live") => reply.out = <<>>

\* over a registry with rows, a live report of an unknown name is the 404
UnknownNameIs404 ==
    (apiDf # None /\ apiDf.rows # <<>> /\ reply # None /\ reply.op = "live"
        /\ \A i \in 1..Len(apiDf.rows) : LowerStr(apiDf.rows[i].name) # LowerStr(reply.q))
        => reply.out.status = 404

-----------------------------------------------------------------------------
(* Two batch runs started over a registry of several spots                 *)

Station41 == [id |-> <<"4", "1">>, lat |-> 0, lon |-> 0]
Station42 == [id |-> <<"4", "2">>, lat |-> 0, lon |-> 20]

\* a registry with one spot more than the batch section takes
SeveralSpots == <<[lat |-> 0, lng |-> 2], [lat |-> 0, lng |-> 16]>>

\* latest_obs.txt: one of the two stations reports, waves and wind
ExclusiveObsFiles ==
    { <<[id |-> Station41.id, lat |-> 0, lon |-> 0, wvht |-> TRUE, wspd |-> TRUE]>>,
      <<[id |-> Station42.id, lat |-> 0, lon |-> 20, wvht |-> TRUE, wspd |-> TRUE]>> }

\* the service is deployed: ingest and process_spots ran once
ExclusiveInit ==
    /\ stationTable = <<[station_id |-> Station41.id, lat |-> 0, lon |-> 0],
                        [station_id |-> Station42.id, lat |-> 0, lon |-> 20]>>
    /\ latestObs \in ExclusiveObsFiles
    /\ rawSpots = SeveralSpots
    /\ ring = CoastRing
    /\ facings = <<>>
    /\ buoysFile = [key |-> "station_id", rows |-> stationTable]
    /\ \E r \in ProcessSpotsResults(rawSpots, stationTable, ring) :
         /\ spotsFile = [exists |-> TRUE, chunks |-> FileOf(r)]
         /\ snapshots = {r}
    /\ lastJob = [name |-> "process_spots", ok |-> TRUE]
    /\ jobs = [j \in Jobs |-> IdleJob]
    /\ apiDf = None
    /\ ScoreIdle
    /\ LiveIdle

\* NOAA replaces latest_obs.txt between two downloads
NoaaUpdate ==
    /\ \E o \in ExclusiveObsFiles : o # latestObs /\ latestObs' = o
    /\ UNCHANGED <<stationTable, rawSpots, buoysFile, spotsFile, lastJob,
                   publishVars, scoreVars, orientVars, liveVars>>

ExclusiveNext == PublishNext \/ NoaaUpdate

SpecExclusive == ExclusiveInit /\ [][ExclusiveNext]_vars

Running(j) == jobs[j].pc \in {"computed", "writing"}

NoRunInProgress == \A j \in Jobs : ~Running(j)

\* C13: a second batch run started while one is in progress is rejected or
\* serialized, so that once the runs have ended the registry file holds the
\* complete result of one single run, never a mix of two runs' rows.
C13_MutualExclusion ==
    NoRunInProgress =>
        /\ Parsable(spotsFile)
        /\ RowsOf(spotsFile) \in snapshots

\* the runs themselves never overlap
NeverTwoRunsAtOnce ==
    \A j, k \in Jobs : (Running(j) /\ Running(k)) => j = k

\* two refresh runs
OnlyRefreshRuns == \A j \in Jobs : jobs[j].kind \in {"none", "refresh"}

\* the same statement of two runs of refresh alone
RefreshRunsDoNotMix ==
    (NoRunInProgress /\ OnlyRefreshRuns) =>
        (Parsable(spotsFile) /\ RowsOf(spotsFile) \in snapshots)

-----------------------------------------------------------------------------
(* A live report of a location whose stored facing is indeterminate        *)

IndeterminateSpot == liveSpot # None /\ liveSpot.beach_facing_deg = Indeterminate

\* C14: for a location whose stored facing is the indeterminate sentinel a
\* live report never returns a score computed with the sentinel as the beach
\* bearing, through the web service or through the command line.
C14_IndeterminateNotScored ==
    IndeterminateSpot =>
        /\ apiOut # None => apiOut.status # 200
        /\ cliOut # None => cliOut.status # "scored"

\* what the service does instead: the sentinel is scored as the bearing 359
IndeterminateScoredAs359 ==
    (IndeterminateSpot /\ ApiReported) =>
        apiOut.score = get_live_report([beach_facing_deg |-> 359], feeds).score

=============================================================================
